---- MODULE Spec2Model ----
(***************************************************************************)
(* Pithon operator console (src/main.py): the actuator registry and its    *)
(* slider handlers (Model, ControlPanel), the command connection (Rpi,     *)
(* Server.disconnect) and the telemetry de-framer (Stream, VideoStream).   *)
(*                                                                         *)
(* A control event runs to completion on the GUI thread.  QSlider.setValue *)
(* clamps to the slider's range and, only if the value changes, emits      *)
(* valueChanged synchronously, which re-enters the connected handler.  The *)
(* handlers are therefore mutually recursive operators over a record "st"  *)
(* that carries the registry, the slider values, the lines written by the  *)
(* running operation and the registry after each single write.             *)
(***************************************************************************)
EXTENDS Integers, Sequences, FiniteSets, TLC

VARIABLES
    gpio,       \* Model.GPIO[c][1]: current value of each channel
    sliders,    \* control_panel.sliders[s].value()
    momentum,   \* Model.MOMENTUM, counted in increments of 0.01
    down,       \* goLeft.isDown(), goRight.isDown()
    alive,      \* rpi.alive
    wire,       \* lines written to rpi.conn by the most recent operation
    hist,       \* registry before, and after each write of, the most recent operation
    fault,      \* an exception escaped a GUI handler
    lastOp,     \* the most recent operation and its input
    lastLine,   \* the last line ever written to rpi.conn
    sdSent,     \* number of "sd" lines written to rpi.conn
    sockClosed, \* server.server_socket closed
    closed,     \* server.streamfile closed
    stream,     \* bytes still to arrive on server.streamfile before EOF
    rpc,        \* position of the worker thread in startVideo / __next__
    i,          \* Stream.i
    hdr,        \* (image_len, agdata) unpacked by the running __next__
    frames,     \* frames yielded by Stream.__next__ so far
    rerr,       \* exception that escaped Stream.__next__
    sent,       \* every byte the robot sends before it closes its end
    bc,         \* a bounds_check call: channel, argument, result, returned
    clock,      \* time(), in whole seconds
    timestamp,  \* Model.TIMESTAMP
    simState,   \* simulator.state
    samples,    \* angular-rate samples delivered to Simulator.recv_data
    painted,    \* simulator.paintGL() calls made by process_ag2
    lastAg,     \* the sample Simulator.recv_data was last called with
    nest        \* deepest nesting of valueChanged handlers in the most recent operation

guiVars    == <<gpio, sliders, momentum, down, wire, hist, fault, nest>>
connVars   == <<alive, lastLine, sdSent, sockClosed, closed>>
readerVars == <<stream, rpc, i, hdr, frames, rerr, sent>>
simVars    == <<clock, timestamp, simState, samples, painted, lastAg>>
vars == <<gpio, sliders, momentum, down, alive, wire, hist, fault, lastOp,
          lastLine, sdSent, sockClosed, closed, stream, rpc, i, hdr, frames,
          rerr, sent, bc, clock, timestamp, simState, samples, painted, lastAg,
          nest>>

----------------------------------------------------------------------------
(* Bounds of the model *)

\* ramp invocations without a reset explored by Spec
MaxMomentum == 7
\* ramp invocations without a reset explored by SpecRamp
MaxRamp == 112
\* bounds_check is applied to every integer in -MaxRaw..MaxRaw
MaxRaw == 105
\* frames the robot sends before it closes its end
MaxFrames == 2
\* largest image_len a sent header declares
MaxImageLen == 2
\* latest time of day at which the console starts
MaxStart == 2
\* seconds that pass while SpecSim runs
MaxElapsed == 3
\* samples delivered under SpecSim
MaxSamples == 3
\* go_left calls under SpecServo
MaxHold == 2
\* frames of a well-formed stream under SpecFrames
MaxWhole == 3
\* nesting of valueChanged handlers beyond which an operation is cut short
MaxNest == 8

----------------------------------------------------------------------------
(* Model.GPIO: the channel table, in dict (insertion) order *)

GPIOKeys ==
    <<"SN1V", "SN1H", "SN2V", "SN2H", "MS1F", "MS1S", "SJ1V",
      "SJ1H", "MS2F", "MS2S", "SJ2V", "SJ2H", "MS3F", "MS3S">>

Channels == {GPIOKeys[k] : k \in 1..Len(GPIOKeys)}

\* [value, safe-value, lower-bound, upper-bound] of each entry
GPIO ==
    [c \in Channels |->
       CASE c \in {"SN1V", "SN2V"} ->
              [value |-> 10, safe |-> 10, lower |-> -40, upper |-> 60]
         [] c \in {"SN1H", "SN2H"} ->
              [value |-> 0, safe |-> 0, lower |-> -65, upper |-> 65]
         [] c \in {"MS1F", "MS2F", "MS3F"} ->
              [value |-> 0, safe |-> 0, lower |-> -80, upper |-> 95]
         [] c \in {"MS1S", "MS2S", "MS3S"} ->
              [value |-> 0, safe |-> 0, lower |-> -90, upper |-> 90]
         [] OTHER ->
              [value |-> 0, safe |-> 0, lower |-> -80, upper |-> 80]]

\* a channel id split as list(s) splits it: first character, middle, last
Chars ==
    [SN1V |-> <<"S", "N1", "V">>, SN1H |-> <<"S", "N1", "H">>,
     SN2V |-> <<"S", "N2", "V">>, SN2H |-> <<"S", "N2", "H">>,
     MS1F |-> <<"M", "S1", "F">>, MS1S |-> <<"M", "S1", "S">>,
     SJ1V |-> <<"S", "J1", "V">>, SJ1H |-> <<"S", "J1", "H">>,
     MS2F |-> <<"M", "S2", "F">>, MS2S |-> <<"M", "S2", "S">>,
     SJ2V |-> <<"S", "J2", "V">>, SJ2H |-> <<"S", "J2", "H">>,
     MS3F |-> <<"M", "S3", "F">>, MS3S |-> <<"M", "S3", "S">>]

startswith(c, ch) == Chars[c][1] = ch

MotorKeys == SelectSeq(GPIOKeys, LAMBDA c : startswith(c, "M"))
ServoKeys == SelectSeq(GPIOKeys, LAMBDA c : startswith(c, "S"))
Motors == {c \in Channels : startswith(c, "M")}
Servos == {c \in Channels : startswith(c, "S")}

\* clear_f, lines 588-590: the id with its last character swapped
Swapped(c) ==
    Chars[c][1] \o Chars[c][2] \o (IF Chars[c][3] = "S" THEN "F" ELSE "S")

----------------------------------------------------------------------------
(* UIWidget.setupUi: the sliders and their ranges *)

SliderNames == Channels \cup {"Forwards", "Turn"}

\* the Vertical sliders keep QSlider's default minimum
SliderMinimum(s) ==
    IF s \in {"SN1V", "SN2V", "SJ1V", "SJ2V"} THEN 0 ELSE -100

SliderMaximum(s) == 100

\* QAbstractSlider::setValue clamps its argument to the range
SliderBound(s, v) ==
    IF v < SliderMinimum(s) THEN SliderMinimum(s)
    ELSE IF v > SliderMaximum(s) THEN SliderMaximum(s)
    ELSE v

----------------------------------------------------------------------------
(* Pure functions of Model *)

\* bounds_check without its upper branch
bounds_check_no_upper(s, v) ==
    IF v < GPIO[s].lower THEN GPIO[s].lower ELSE v

bounds_check(s, v) ==
    LET lower == GPIO[s].lower
        upper == GPIO[s].upper
    IN  IF v < lower THEN lower
        ELSE IF v > upper THEN upper
        ELSE v

\* int((m ** 1.6) * 90) in double precision, m being 0.01 added n times to 0.0
Ramp90 ==
    <<0, 0, 0, 0, 0, 0, 1, 1, 1, 2, 2, 3, 3, 3, 4, 4, 5, 5, 6, 6,
      7, 7, 8, 9, 9, 10, 11, 11, 12, 13, 13, 14, 15, 16, 16, 17, 18, 19, 19, 20,
      21, 22, 23, 24, 25, 25, 26, 27, 28, 29, 30, 31, 32, 33, 34, 35, 36, 37, 38, 39,
      40, 41, 42, 44, 45, 46, 47, 48, 49, 50, 52, 53, 54, 55, 56, 58, 59, 60, 61, 62,
      64, 65, 66, 68, 69, 70, 72, 73, 74, 76, 77, 78, 80, 81, 82, 84, 85, 87, 88, 90,
      91, 92, 94, 95, 97, 98, 100, 101, 103, 104, 106, 107, 109, 110, 112, 114, 115, 117, 118, 120,
      122, 123, 125, 126, 128, 130, 131, 133, 135, 136>>

\* int((MOMENTUM ** 1.6) * bound): int() truncates towards zero
\* int() replaced by math.floor
RampValue_floor(n, bound) ==
    IF bound >= 0 THEN (Ramp90[n] * bound) \div 90
    ELSE -((Ramp90[n] * (-bound)) \div 90) - 1

RampValue(n, bound) ==
    IF bound >= 0 THEN (Ramp90[n] * bound) \div 90
    ELSE -((Ramp90[n] * (-bound)) \div 90)

----------------------------------------------------------------------------
(* Rpi.send *)

\* send without the test of self.alive
send_unguarded(st, msg) == [st EXCEPT !.wire = Append(@, msg)]

send(st, msg) ==
    IF st.alive THEN [st EXCEPT !.wire = Append(@, msg)] ELSE st

\* self.GPIO[s][1] = v
store(st, s, v) ==
    LET g == [st.gpio EXCEPT ![s] = v]
    IN  [st EXCEPT !.gpio = g, !.hist = Append(@, g)]

----------------------------------------------------------------------------
(* The handlers; each maps the state before the call to the state after *)

RECURSIVE setValue(_, _, _)
RECURSIVE valueChanged(_, _)
RECURSIVE clear_f(_, _)
RECURSIVE slider_value(_, _)
RECURSIVE forwards(_)
RECURSIVE forwards_loop(_, _, _)
RECURSIVE turn(_)
RECURSIVE turn_loop(_, _, _)

\* setValue that emits valueChanged also when the value is the old one
setValue_always(st, s, v) ==
    LET b == SliderBound(s, v)
        d == st.depth + 1
    IN  IF d > MaxNest THEN [st EXCEPT !.sliders[s] = b, !.deep = d]
        ELSE [valueChanged([st EXCEPT !.sliders[s] = b, !.depth = d,
                                      !.deep = IF d > @ THEN d ELSE @], s)
                  EXCEPT !.depth = st.depth]

\* QAbstractSlider::setValue: no signal when the clamped value is the old one;
\* a signal runs the connected handler inside the call, one level deeper
setValue(st, s, v) ==
    LET b == SliderBound(s, v)
        d == st.depth + 1
    IN  IF st.sliders[s] = b THEN st
        ELSE IF d > MaxNest THEN [st EXCEPT !.sliders[s] = b, !.deep = d]
        ELSE [valueChanged([st EXCEPT !.sliders[s] = b, !.depth = d,
                                      !.deep = IF d > @ THEN d ELSE @], s)
                  EXCEPT !.depth = st.depth]

\* the valueChanged connections made by ControlPanel.__init__
valueChanged(st, s) ==
    IF s = "Forwards" THEN forwards(st)
    ELSE IF s = "Turn" THEN turn(st)
    ELSE slider_value(st, s)

\* clear_f without the test of line 591: self.GPIO[s] raises KeyError
clear_f_no_test(st, names) ==
    IF names = <<>> THEN [st EXCEPT !.ret = "r"]
    ELSE LET s == Swapped(Head(names))
         IN  IF s \notin Channels THEN [st EXCEPT !.ret = "None", !.fault = TRUE]
             ELSE clear_f(send(setValue(store(st, s, 0), s, 0), <<s, 0>>),
                          Tail(names))

\* clear_f that returns its argument without clearing any complement
clear_f_skip(st, names) == [st EXCEPT !.ret = "r"]

\* st.ret = "None" is the bare return of line 592, "r" the return of line 596
clear_f(st, names) ==
    IF names = <<>> THEN [st EXCEPT !.ret = "r"]
    ELSE LET s == Swapped(Head(names))
         IN  IF s \notin Channels THEN [st EXCEPT !.ret = "None"]
             ELSE clear_f(send(setValue(store(st, s, 0), s, 0), <<s, 0>>),
                          Tail(names))

slider_value(st, name) ==
    LET s1 == clear_f(st, <<name>>)
        value == bounds_check(name, s1.sliders[name])
    IN  send(store(s1, name, value), <<name, value>>)

forwards_loop(st, names, value) ==
    IF names = <<>> THEN st
    ELSE LET s == Head(names)
         IN  forwards_loop(
                 send(setValue(store(st, s, value), s, value), <<s, value>>),
                 Tail(names), value)

\* iterating over a None result raises TypeError
forwards(st) ==
    LET value == st.sliders["Forwards"]
        s1 == clear_f(st, <<"MS1F", "MS2F", "MS3F">>)
    IN  IF s1.ret = "None" THEN [s1 EXCEPT !.fault = TRUE]
        ELSE forwards_loop(s1, <<"MS1F", "MS2F", "MS3F">>, value)

turn_loop(st, names, value) ==
    IF names = <<>> THEN st
    ELSE LET s == Head(names)
         IN  turn_loop(
                 send(setValue(store(st, s, value), s, value), <<s, value>>),
                 Tail(names), value)

turn(st) == turn_loop(st, <<"SJ1H", "SJ2H">>, st.sliders["Turn"])

RECURSIVE ramp_loop(_, _, _)
ramp_loop(st, names, side) ==
    IF names = <<>> THEN st
    ELSE LET s == Head(names)
             bound == IF side = "left" THEN GPIO[s].upper ELSE GPIO[s].lower
             value == RampValue(st.momentum, bound)
         IN  ramp_loop(
                 send(setValue(store(st, s, value), s, value), <<s, value>>),
                 Tail(names), side)

\* go with MOMENTUM += 0.02
go_twice(st, side) ==
    LET s0 == [st EXCEPT !.momentum = @ + 2]
        s1 == setValue(s0, "Forwards", 0)
        s2 == clear_f(s1, <<"MS1S", "MS2S", "MS3S">>)
    IN  IF s2.ret = "None" THEN [s2 EXCEPT !.fault = TRUE]
        ELSE ramp_loop(s2, <<"MS1S", "MS2S", "MS3S">>, side)

\* go_left (side = "left") and go_right (side = "right")
go(st, side) ==
    LET s0 == [st EXCEPT !.momentum = @ + 1]
        s1 == setValue(s0, "Forwards", 0)
        s2 == clear_f(s1, <<"MS1S", "MS2S", "MS3S">>)
    IN  IF s2.ret = "None" THEN [s2 EXCEPT !.fault = TRUE]
        ELSE ramp_loop(s2, <<"MS1S", "MS2S", "MS3S">>, side)

go_left(st) == go(st, "left")

go_right(st) == go(st, "right")

RECURSIVE safe_loop(_, _)
safe_loop(st, names) ==
    IF names = <<>> THEN st
    ELSE LET s == Head(names)
             v == GPIO[s].safe
         IN  safe_loop(send(setValue(store(st, s, v), s, v), <<s, v>>),
                       Tail(names))

\* safe_value without the filter on 'S'
safe_value_all(st) == safe_loop(setValue(st, "Turn", 0), GPIOKeys)

safe_value(st) == safe_loop(setValue(st, "Turn", 0), ServoKeys)

RECURSIVE reset_loop(_, _)
reset_loop(st, names) ==
    IF names = <<>> THEN st
    ELSE LET s == Head(names)
         IN  reset_loop(
                 send(setValue(store(st, s, 0), s, GPIO[s].safe), <<s, 0>>),
                 Tail(names))

\* reset_to_zero without MOMENTUM = 0.0
reset_to_zero_keep_momentum(st) ==
    IF st.down["goLeft"] \/ st.down["goRight"] THEN st
    ELSE reset_loop(setValue(st, "Forwards", 0), MotorKeys)

\* reset_to_zero without the isDown() test
reset_to_zero_unguarded(st) ==
    reset_loop(setValue([st EXCEPT !.momentum = 0], "Forwards", 0), MotorKeys)

reset_to_zero(st) ==
    IF st.down["goLeft"] \/ st.down["goRight"] THEN st
    ELSE reset_loop(setValue([st EXCEPT !.momentum = 0], "Forwards", 0),
                    MotorKeys)

----------------------------------------------------------------------------
(* Control events on the GUI thread *)

\* the state a control event starts from; d is the buttons' isDown()
Begin(d) ==
    [gpio |-> gpio, sliders |-> sliders, momentum |-> momentum, down |-> d,
     alive |-> alive, wire |-> <<>>, hist |-> <<gpio>>, fault |-> FALSE,
     ret |-> "r", depth |-> 0, deep |-> 0]

\* the state a control event leaves behind
End(st, op) ==
    /\ gpio' = st.gpio
    /\ sliders' = st.sliders
    /\ momentum' = st.momentum
    /\ down' = st.down
    /\ wire' = st.wire
    /\ hist' = st.hist
    /\ fault' = (fault \/ st.fault)
    /\ nest' = st.deep
    /\ lastOp' = op
    /\ lastLine' = IF st.wire = <<>> THEN lastLine ELSE st.wire[Len(st.wire)]
    /\ UNCHANGED <<alive, sdSent, sockClosed, closed, readerVars, bc, simVars>>

\* the operator moves slider s to v: a QSlider only reports a changed value
MoveSlider(s, v) ==
    /\ ~fault
    /\ v = SliderBound(s, v)
    /\ v # sliders[s]
    /\ End(setValue(Begin(down), s, v), <<"move", s, v>>)

\* goLeft / goRight go down: pressed
Press(b, limit) ==
    /\ ~fault
    /\ ~down[b]
    /\ momentum < limit
    /\ LET st == Begin([down EXCEPT ![b] = TRUE])
       IN  End(IF b = "goLeft" THEN go_left(st) ELSE go_right(st),
               <<"press", b>>)

\* auto-repeat of a held button: released, then pressed, isDown() throughout
Repeat(b, limit) ==
    /\ ~fault
    /\ down[b]
    /\ momentum < limit
    /\ LET st == reset_to_zero(Begin(down))
       IN  End(IF b = "goLeft" THEN go_left(st) ELSE go_right(st),
               <<"repeat", b>>)

\* goLeft / goRight come up: released
Release(b) ==
    /\ ~fault
    /\ down[b]
    /\ End(reset_to_zero(Begin([down EXCEPT ![b] = FALSE])), <<"release", b>>)

SafeValuePressed ==
    /\ ~fault
    /\ End(safe_value(Begin(down)), <<"safeValue">>)

ResetToZeroPressed ==
    /\ ~fault
    /\ End(reset_to_zero(Begin(down)), <<"resetToZero">>)

\* disconnect without rpi.alive = False
disconnect_keeps_alive(sd) ==
    /\ ~fault
    /\ LET st == IF sd THEN send(Begin(down), <<"sd">>) ELSE Begin(down)
       IN  /\ wire' = st.wire
           /\ sdSent' = sdSent + Len(st.wire)
           /\ lastLine' = IF st.wire = <<>> THEN lastLine
                          ELSE st.wire[Len(st.wire)]
           /\ hist' = st.hist
    /\ alive' = alive
    /\ closed' = TRUE
    /\ sockClosed' = TRUE
    /\ lastOp' = <<"disconnect", sd>>
    /\ nest' = 0
    /\ UNCHANGED <<gpio, sliders, momentum, down, fault, readerVars, bc, simVars>>

\* Server.disconnect(sd); the powerOff button calls it with the default sd
disconnect(sd) ==
    /\ ~fault
    /\ LET st == IF sd THEN send(Begin(down), <<"sd">>) ELSE Begin(down)
       IN  /\ wire' = st.wire
           /\ sdSent' = sdSent + Len(st.wire)
           /\ lastLine' = IF st.wire = <<>> THEN lastLine
                          ELSE st.wire[Len(st.wire)]
           /\ hist' = st.hist
    /\ alive' = IF sd THEN FALSE ELSE alive
    /\ closed' = TRUE
    /\ sockClosed' = TRUE
    /\ lastOp' = <<"disconnect", sd>>
    /\ nest' = 0
    /\ UNCHANGED <<gpio, sliders, momentum, down, fault, readerVars, bc, simVars>>

----------------------------------------------------------------------------
(* The telemetry stream: '<Lffffff' header, then image_len payload bytes *)

\* struct.calcsize('<Lffffff')
HeaderSize == 28

\* four bytes read as one big-endian word: '>Lffffff' for '<Lffffff'
BE32(b) == b[4] + 256 * b[3] + 65536 * b[2] + 16777216 * b[1]

\* four bytes read as one little-endian 32-bit word
LE32(b) == b[1] + 256 * b[2] + 65536 * b[3] + 16777216 * b[4]

\* struct.unpack('<Lffffff', data); a float is kept as its IEEE-754 word
unpack(data) ==
    [image_len |-> LE32(SubSeq(data, 1, 4)),
     agdata |-> [k \in 1..6 |-> LE32(SubSeq(data, 4 * k + 1, 4 * k + 4))]]

\* file.read(n): up to n bytes, fewer only at end of stream
ReadBytes(s, n) == SubSeq(s, 1, IF n < Len(s) THEN n ELSE Len(s))

RestBytes(s, n) == SubSeq(s, (IF n < Len(s) THEN n ELSE Len(s)) + 1, Len(s))

\* the robot's side of the wire format: a 32-bit word as four bytes
Bytes32(w) ==
    <<w % 256, (w \div 256) % 256, (w \div 65536) % 256, w \div 16777216>>

\* IEEE-754 single-precision words of 0.0, 1.0, 2.0 and 0.5
FloatWords == <<0, 1065353216, 1073741824, 1056964608>>

\* the sample carried by the k-th frame sent
SampleOf(k) == [j \in 1..6 |-> FloatWords[((k + j) % 4) + 1]]

\* the image bytes carried by the k-th frame sent
ImageOf(k, len) == [j \in 1..len |-> (16 * k + j) % 256]

RECURSIVE Concat(_)
Concat(ss) == IF ss = <<>> THEN <<>> ELSE Head(ss) \o Concat(Tail(ss))

EncodeFrame(k, len) ==
    Bytes32(len) \o Concat([j \in 1..6 |-> Bytes32(SampleOf(k)[j])])
        \o ImageOf(k, len)

EncodeFrames(lens) == Concat([k \in 1..Len(lens) |-> EncodeFrame(k, lens[k])])

\* what the robot may send: whole frames, cut anywhere by the end of stream
StreamInputs ==
    UNION {{SubSeq(EncodeFrames(lens), 1, n) : n \in 0..Len(EncodeFrames(lens))} :
           lens \in UNION {[1..m -> 0..MaxImageLen] : m \in 0..MaxFrames}}

----------------------------------------------------------------------------
(* The worker thread: VideoStream.startVideo iterating Stream *)

\* startStream pressed: Stream(server.streamfile), then the for loop
startVideo ==
    /\ rpc \in {"idle", "done"}
    /\ rpc' = "next"
    /\ i' = 0
    /\ frames' = <<>>
    /\ hdr' = <<>>
    /\ UNCHANGED <<guiVars, connVars, lastOp, stream, rerr, sent, bc, simVars>>

\* __next__ without self.i += 1
next_header_no_increment ==
    /\ rpc = "next"
    /\ i' = i
    /\ IF closed
         THEN rpc' = "done" /\ UNCHANGED <<stream, hdr>>
         ELSE LET data == ReadBytes(stream, HeaderSize)
              IN  /\ stream' = RestBytes(stream, HeaderSize)
                  /\ IF Len(data) # HeaderSize
                       THEN rpc' = "done" /\ hdr' = <<>>
                       ELSE rpc' = "payload" /\ hdr' = unpack(data)
    /\ UNCHANGED <<guiVars, connVars, lastOp, frames, rerr, sent, bc, simVars>>

\* __next__ whose except clause misses struct.error
next_header_uncaught ==
    /\ rpc = "next"
    /\ i' = i + 1
    /\ IF closed
         THEN rpc' = "done" /\ UNCHANGED <<stream, hdr, rerr>>
         ELSE LET data == ReadBytes(stream, HeaderSize)
              IN  /\ stream' = RestBytes(stream, HeaderSize)
                  /\ IF Len(data) # HeaderSize
                       THEN rpc' = "fault" /\ rerr' = "struct.error" /\ hdr' = <<>>
                       ELSE rpc' = "payload" /\ hdr' = unpack(data) /\ rerr' = rerr
    /\ UNCHANGED <<guiVars, connVars, lastOp, frames, sent, bc, simVars>>

\* __next__, lines 82-90: a closed file raises ValueError, a short header
\* struct.error; both become StopIteration, which ends the for loop
next_header ==
    /\ rpc = "next"
    /\ i' = i + 1
    /\ IF closed
         THEN rpc' = "done" /\ UNCHANGED <<stream, hdr>>
         ELSE LET data == ReadBytes(stream, HeaderSize)
              IN  /\ stream' = RestBytes(stream, HeaderSize)
                  /\ IF Len(data) # HeaderSize
                       THEN rpc' = "done" /\ hdr' = <<>>
                       ELSE rpc' = "payload" /\ hdr' = unpack(data)
    /\ UNCHANGED <<guiVars, connVars, lastOp, frames, rerr, sent, bc, simVars>>

\* __next__, lines 91-96, outside the try: a closed file raises ValueError
next_payload ==
    /\ rpc = "payload"
    /\ IF closed
         THEN /\ rpc' = "fault"
              /\ rerr' = "ValueError"
              /\ UNCHANGED <<stream, frames>>
         ELSE /\ frames' = Append(frames,
                     <<i, ReadBytes(stream, hdr.image_len), hdr.agdata>>)
              /\ stream' = RestBytes(stream, hdr.image_len)
              /\ rpc' = "next"
              /\ rerr' = rerr
    /\ UNCHANGED <<guiVars, connVars, lastOp, i, hdr, sent, bc, simVars>>

----------------------------------------------------------------------------
(* The orientation estimator: Simulator.recv_data -> Model.process_ag2 *)

\* as_rotation_vector(from_euler_angles(a, b, c)) with its magnitude in
\* degrees, kept as the term over the three Euler angles it is computed from
RotationReport(a, b, c) == [by |-> "process_ag2", of |-> <<a, b, c>>]

\* simulator.state as Simulator.__init__ leaves it
InitialState == [by |-> "__init__", of |-> <<1, 1, 0, 0>>]

\* process_ag2 that adds the rotation to the orientation reported before
process_ag2_composed(ts, ag, now) ==
    LET dt == now - ts
        old == IF simState.by = "__init__" THEN <<0, 0, 0>> ELSE simState.of
    IN  [state |-> RotationReport(old[1] + ag[4] * dt, old[2] + ag[5] * dt,
                                  old[3] + ag[6] * dt),
         timestamp |-> now]

\* one state of process_ag2's variables after the sample ag at time now
process_ag2(ts, ag, now) ==
    LET dt == now - ts
    IN  [state |-> RotationReport(ag[4] * dt, ag[5] * dt, ag[6] * dt),
         timestamp |-> now]

\* angular-rate samples (ax, ay, az, gx, gy, gz) taken to arrive
AgInputs == {<<0, 0, 1, gx, gy, gz>> : gx \in {0, 1}, gy \in {-1, 0}, gz \in {0, 2}}

\* AGSignal delivers one sample to Simulator.recv_data on the GUI thread
recv_data(ag) ==
    /\ samples < MaxSamples
    /\ LET r == process_ag2(timestamp, ag, clock)
       IN  /\ simState' = r.state
           /\ timestamp' = r.timestamp
    /\ painted' = painted + 1
    /\ samples' = samples + 1
    /\ lastAg' = ag
    /\ UNCHANGED <<guiVars, connVars, lastOp, readerVars, bc, clock>>

\* time passes
Tick ==
    /\ clock < MaxStart + MaxElapsed
    /\ clock' = clock + 1
    /\ UNCHANGED <<guiVars, connVars, lastOp, readerVars, bc, timestamp,
                   simState, samples, painted, lastAg>>

----------------------------------------------------------------------------
(* bounds_check applied to an arbitrary argument *)

RawInputs == (-MaxRaw..MaxRaw) \cup {-9999, 9999}

\* the pending call bc.s, bc.v returns
BoundsCheck ==
    /\ bc # <<>>
    /\ ~bc.returned
    /\ bc' = [bc EXCEPT !.r = bounds_check(bc.s, bc.v), !.returned = TRUE]
    /\ UNCHANGED <<guiVars, connVars, lastOp, readerVars, simVars>>

----------------------------------------------------------------------------
(* Specifications *)

\* the console after construction, with s the bytes the robot will send
\* and t the time of day
InitAt(s, call, t) ==
    /\ gpio = [c \in Channels |-> GPIO[c].value]
    /\ sliders = [s0 \in SliderNames |-> 0]
    /\ momentum = 0
    /\ down = [b \in {"goLeft", "goRight"} |-> FALSE]
    /\ alive = TRUE
    /\ wire = <<>>
    /\ hist = <<>>
    /\ fault = FALSE
    /\ lastOp = <<"init">>
    /\ lastLine = <<>>
    /\ sdSent = 0
    /\ sockClosed = FALSE
    /\ closed = FALSE
    /\ stream = s
    /\ sent = s
    /\ rpc = "idle"
    /\ i = 0
    /\ hdr = <<>>
    /\ frames = <<>>
    /\ rerr = "none"
    /\ bc = call
    /\ clock = t
    /\ timestamp = 0
    /\ simState = InitialState
    /\ samples = 0
    /\ painted = 0
    /\ lastAg = <<>>
    /\ nest = 0

InitWith(s, call) == InitAt(s, call, 1)

Init == InitWith(<<>>, <<>>)

\* slider positions the operator is taken to choose under Spec
Moves ==
    {<<"MS1F", 30>>, <<"MS1S", -100>>, <<"MS2F", -100>>, <<"MS3S", 30>>,
     <<"Forwards", 100>>, <<"Turn", 100>>}

Next ==
    \/ \E m \in Moves : MoveSlider(m[1], m[2])
    \/ \E b \in {"goLeft", "goRight"} : Press(b, MaxMomentum)
    \/ \E b \in {"goLeft", "goRight"} : Repeat(b, MaxMomentum)
    \/ \E b \in {"goLeft", "goRight"} : Release(b)
    \/ SafeValuePressed
    \/ ResetToZeroPressed
    \/ disconnect(TRUE)

Spec == Init /\ [][Next]_vars

\* held ramps: goLeft / goRight auto-repeating far beyond momentum 1.0
RampMoves == {<<"MS1F", 30>>, <<"Forwards", 50>>}

NextRamp ==
    \/ \E m \in RampMoves : MoveSlider(m[1], m[2])
    \/ \E b \in {"goLeft", "goRight"} : Press(b, MaxRamp)
    \/ \E b \in {"goLeft", "goRight"} : Repeat(b, MaxRamp)
    \/ \E b \in {"goLeft", "goRight"} : Release(b)
    \/ SafeValuePressed
    \/ ResetToZeroPressed

SpecRamp == Init /\ [][NextRamp]_vars

\* the worker thread against Server.disconnect on the GUI thread
InitReader == \E s \in StreamInputs : InitWith(s, <<>>)

NextReader ==
    \/ startVideo
    \/ next_header
    \/ next_payload
    \/ \E sd \in BOOLEAN : disconnect(sd)

SpecReader == InitReader /\ [][NextReader]_vars

\* bounds_check over every channel and argument
InitClip ==
    \E s \in Channels, v \in RawInputs :
        InitWith(<<>>, [s |-> s, v |-> v, r |-> 0, returned |-> FALSE])

NextClip == BoundsCheck

SpecClip == InitClip /\ [][NextClip]_vars

\* one ramp button held at a time, from every Idle state RowMoves lead to:
\* while goLeft is down, momentum counts go_left calls in a row since Idle
RowMoves == {<<"MS1S", -100>>, <<"MS2F", 30>>, <<"Forwards", 50>>}

IdleMove(s, v) ==
    /\ momentum = 0
    /\ MoveSlider(s, v)

PressAlone(b) ==
    /\ \A o \in DOMAIN down : ~down[o]
    /\ Press(b, MaxRamp)

NextRow ==
    \/ \E m \in RowMoves : IdleMove(m[1], m[2])
    \/ \E b \in {"goLeft", "goRight"} : PressAlone(b)
    \/ \E b \in {"goLeft", "goRight"} : Repeat(b, MaxRamp)
    \/ \E b \in {"goLeft", "goRight"} : Release(b)

SpecRow == Init /\ [][NextRow]_vars

\* the Servo sliders and Turn, with one Motor channel and a short ramp
ServoMoves ==
    {<<"SN1V", 70>>, <<"SN1H", -100>>, <<"SJ1H", 50>>, <<"SJ2V", 100>>,
     <<"MS1F", 30>>, <<"Turn", -100>>, <<"Turn", 79>>, <<"Turn", 100>>}

NextServo ==
    \/ \E m \in ServoMoves : MoveSlider(m[1], m[2])
    \/ Press("goLeft", MaxHold)
    \/ Repeat("goLeft", MaxHold)
    \/ Release("goLeft")
    \/ SafeValuePressed

SpecServo == Init /\ [][NextServo]_vars

\* every Servo slider moved by the operator, next to a Motor channel and Turn
SetMoves ==
    {<<"SN1V", 100>>, <<"SN1H", -100>>, <<"SN2V", 5>>, <<"SN2H", 100>>,
     <<"SJ1V", 100>>, <<"SJ1H", -100>>, <<"SJ2V", 40>>, <<"SJ2H", 80>>,
     <<"SN1H", 20>>, <<"MS1F", 30>>, <<"Turn", 50>>}

NextSet == \E m \in SetMoves : MoveSlider(m[1], m[2])

SpecSet == Init /\ [][NextSet]_vars

\* the reader, started once, on a stream of whole frames
WholeLens == UNION {[1..m -> 0..MaxImageLen] : m \in 0..MaxWhole}

InitFrames == \E lens \in WholeLens : InitWith(EncodeFrames(lens), <<>>)

StartOnce ==
    /\ rpc = "idle"
    /\ startVideo

NextFrames ==
    \/ StartOnce
    \/ next_header
    \/ next_payload

SpecFrames == InitFrames /\ [][NextFrames]_vars

\* samples arriving at the orientation estimator as time passes
InitSim == \E t \in 1..MaxStart : InitAt(<<>>, <<>>, t)

NextSim ==
    \/ \E ag \in AgInputs : recv_data(ag)
    \/ Tick

SpecSim == InitSim /\ [][NextSim]_vars

----------------------------------------------------------------------------
(* Properties *)

clip(c, v) ==
    IF v < GPIO[c].lower THEN GPIO[c].lower
    ELSE IF v > GPIO[c].upper THEN GPIO[c].upper
    ELSE v

IsMove(op, s) == op[1] = "move" /\ op[2] = s

\* no segment has both its Forward and its Sideways value non-zero
Exclusive(g) == \A c \in Motors : ~(g[c] # 0 /\ g[Swapped(c)] # 0)

\* C1: in every reachable state, and in every intermediate state between
\* the registry writes of one operation, at most one of MSiF and MSiS is
\* non-zero for each segment i.
C1_Exclusion == Exclusive(gpio) /\ \A k \in 1..Len(hist) : Exclusive(hist[k])

\* a held ramp drove MS1S to a non-zero value from a state where MS1F was non-zero
C1_Witness ==
    /\ lastOp[1] = "repeat"
    /\ hist[1]["MS1F"] # 0
    /\ gpio["MS1S"] # 0

\* C2: set(MSiF, x) with x # 0 followed by set(MSiS, y) ends with MSiF = 0
\* and MSiS = clip(y), and the same with F and S exchanged.
C2_SetThenSetComplement ==
    [][\A c \in Motors :
         (/\ IsMove(lastOp, c)
          /\ lastOp[3] # 0
          /\ IsMove(lastOp', Swapped(c)))
         => /\ gpio'[c] = 0
            /\ gpio'[Swapped(c)] = clip(Swapped(c), lastOp'[3])]_vars

\* C3: on a live connection one set(c, v) on a Motor channel writes exactly
\* the two lines "<complement>:0" and "<c>:<clip(v)>", in this order, and
\* stores clip(v) as the current value of c.
C3_SetWritesTwoLines ==
    [][\A c \in Motors :
         (alive /\ IsMove(lastOp', c))
         => /\ wire' = << <<Swapped(c), 0>>, <<c, clip(c, lastOp'[3])>> >>
            /\ gpio'[c] = clip(c, lastOp'[3])]_vars

\* C4: bounds_check(c, v) lies within the bounds of c, is v when v is within
\* them, the lower bound when v is below and the upper bound when v is
\* above; it raises nothing and leaves the registry alone.
C4_Validate ==
    (bc # <<>> /\ bc.returned) =>
        /\ GPIO[bc.s].lower <= bc.r /\ bc.r <= GPIO[bc.s].upper
        /\ (GPIO[bc.s].lower <= bc.v /\ bc.v <= GPIO[bc.s].upper) => bc.r = bc.v
        /\ bc.v < GPIO[bc.s].lower => bc.r = GPIO[bc.s].lower
        /\ bc.v > GPIO[bc.s].upper => bc.r = GPIO[bc.s].upper
        /\ gpio = [c \in Channels |-> GPIO[c].value]
        /\ ~fault

\* SN1H: 9999 -> 65
C4_Witness == bc = [s |-> "SN1H", v |-> 9999, r |-> 65, returned |-> TRUE]

\* C5: after disconnect(true) on a live connection alive is false, "sd" was
\* written exactly once and is the last line ever written, and every later
\* operation writes nothing and raises nothing.
C5_AfterShutdown ==
    IF alive THEN sdSent = 0
    ELSE /\ sdSent = 1
         /\ lastLine = <<"sd">>
         /\ ~fault
         /\ \/ wire = <<>>
            \/ wire = << <<"sd">> >> /\ lastOp = <<"disconnect", TRUE>>

\* the Forwards slider was moved after the shutdown
C5_Witness ==
    /\ ~alive
    /\ lastOp = <<"move", "Forwards", 100>>
    /\ gpio["MS1F"] # 0

\* offset in sent of the header of the k-th frame yielded
RECURSIVE FrameOffset(_)
FrameOffset(k) ==
    IF k = 1 THEN 0
    ELSE FrameOffset(k - 1) + HeaderSize + Len(frames[k - 1][2])

\* imageLen declared by the header of the k-th frame yielded
Declared(k) == LE32(SubSeq(sent, FrameOffset(k) + 1, FrameOffset(k) + 4))

\* C6: a header that declares more payload bytes than remain in the stream
\* produces no frame: no frame with a short payload is ever yielded.
C6_NoShortPayload ==
    \A k \in 1..Len(frames) : Len(frames[k][2]) = Declared(k)

\* C7: fewer than 28 bytes at a frame boundary yield no frame and end the
\* sequence with StopIteration, never a fault; frames already yielded stay;
\* a stream of fewer than 28 bytes yields zero frames.
C7_TruncatedHeader ==
    /\ [](Len(sent) < HeaderSize => (frames = <<>> /\ rerr = "none"))
    /\ [][(rpc = "next" /\ Len(stream) < HeaderSize /\ rpc' # "next")
            => (rpc' = "done" /\ frames' = frames /\ rerr' = "none")]_vars

\* one frame was yielded, then 10 bytes of a second header ended the sequence
C7_Witness ==
    /\ rpc = "done"
    /\ ~closed
    /\ Len(frames) = 1
    /\ Len(sent) = HeaderSize + Len(frames[1][2]) + 10
    /\ stream = <<>>
    /\ rerr = "none"

\* C8: however Server.disconnect interleaves with the frame loop, no
\* exception other than the end-of-sequence signal escapes the reader.
C8_CancelIsEndOfSequence == rerr = "none" /\ rpc # "fault"

\* C9: after setForwardsAll(v) each of MS1F, MS2F, MS3F holds clip(v), each
\* of MS1S, MS2S, MS3S holds 0, and the commands sent for the Forward
\* channels carry clip(v).
C9_ForwardsAll ==
    IsMove(lastOp, "Forwards") =>
        \A c \in {"MS1F", "MS2F", "MS3F"} :
            /\ gpio[c] = clip(c, lastOp[3])
            /\ gpio[Swapped(c)] = 0
            /\ \A k \in 1..Len(wire) :
                   wire[k][1] = c => wire[k][2] = clip(c, lastOp[3])

\* C10: under every sequence of operations other than setTurn every
\* channel's current value lies within its bounds and every command written
\* carries a value within the bounds of its channel, however long a ramp is
\* held.
C10_EverySetterClips ==
    /\ \A c \in Channels : GPIO[c].lower <= gpio[c] /\ gpio[c] <= GPIO[c].upper
    /\ \A k \in 1..Len(wire) :
           Len(wire[k]) = 2 =>
               /\ GPIO[wire[k][1]].lower <= wire[k][2]
               /\ wire[k][2] <= GPIO[wire[k][1]].upper

----------------------------------------------------------------------------
(* Exact arithmetic for floor(momentum^1.6 * bound): with momentum = n/100,
   v <= (n/100)^(8/5) * b < v + 1  iff  v^5 * 100^8 <= b^5 * n^8 < (v+1)^5 * 100^8.
   Naturals are little-endian digit sequences in base BigBase. *)

BigBase == 10000

RECURSIVE BigMulCarry(_, _, _)
BigMulCarry(a, m, carry) ==
    IF a = <<>>
    THEN IF carry = 0 THEN <<>>
         ELSE <<carry % BigBase>> \o BigMulCarry(<<>>, m, carry \div BigBase)
    ELSE LET p == Head(a) * m + carry
         IN  <<p % BigBase>> \o BigMulCarry(Tail(a), m, p \div BigBase)

\* a * m^e
RECURSIVE BigTimesPow(_, _, _)
BigTimesPow(a, m, e) ==
    IF e = 0 THEN a
    ELSE IF m = 0 THEN <<>>
    ELSE BigTimesPow(BigMulCarry(a, m, 0), m, e - 1)

RECURSIVE BigLessFrom(_, _, _)
BigLessFrom(a, b, k) ==
    IF k = 0 THEN FALSE
    ELSE IF a[k] # b[k] THEN a[k] < b[k]
    ELSE BigLessFrom(a, b, k - 1)

BigLess(a, b) ==
    IF Len(a) # Len(b) THEN Len(a) < Len(b) ELSE BigLessFrom(a, b, Len(a))

\* k^5 * 100^8 and b^5 * n^8, for k, b, n >= 0
FifthScaled(k) == BigTimesPow(BigTimesPow(<<1>>, k, 5), 100, 8)
FifthOfProduct(n, b) == BigTimesPow(BigTimesPow(<<1>>, b, 5), n, 8)

\* v = floor((n/100)^1.6 * bound), the floor toward minus infinity
IsFloor16(v, n, bound) ==
    IF bound >= 0
    THEN /\ v >= 0
         /\ ~BigLess(FifthOfProduct(n, bound), FifthScaled(v))
         /\ BigLess(FifthOfProduct(n, bound), FifthScaled(v + 1))
    ELSE /\ v <= 0
         /\ ~BigLess(FifthScaled(-v), FifthOfProduct(n, -bound))
         /\ \/ v = 0
            \/ BigLess(FifthScaled(-v - 1), FifthOfProduct(n, -bound))

\* v = (n/100)^1.6 * bound rounded toward zero
IsTrunc16(v, n, bound) ==
    IF bound >= 0 THEN IsFloor16(v, n, bound) ELSE IsFloor16(-v, n, -bound)

\* the lines of the last operation that carry channel c
LinesFor(c) == SelectSeq(wire, LAMBDA l : l[1] = c)

\* the value the last operation sent last for channel c is v
SentLast(c, v) == LinesFor(c) # <<>> /\ LinesFor(c)[Len(LinesFor(c))] = <<c, v>>

Sideways == {"MS1S", "MS2S", "MS3S"}

\* the last operation was a go_left / go_right call of a run of such calls
\* in a row since Idle (under SpecRow)
InRow(b) == down[b] /\ lastOp \in {<<"press", b>>, <<"repeat", b>>}

\* C11: after go_left has been called n times in a row from Idle, every
\* Motor Sideways channel holds floor((0.01 n)^1.6 * upperBound), that value
\* is the one sent for it, and its Forward complement holds 0.
C11_RampLeft ==
    InRow("goLeft") =>
        \A s \in Sideways :
            /\ IsFloor16(gpio[s], momentum, GPIO[s].upper)
            /\ SentLast(s, gpio[s])
            /\ gpio[Swapped(s)] = 0

IsReset(op) == op[1] \in {"resetToZero", "release"}

Held(d) == d["goLeft"] \/ d["goRight"]

\* C13: reset_to_zero called while goLeft or goRight is still down changes
\* nothing: momentum, the registry and the sliders are as before and no line
\* is written.
C13_ResetWhileHeld ==
    [][(IsReset(lastOp') /\ Held(down')) =>
           /\ momentum' = momentum
           /\ gpio' = gpio
           /\ sliders' = sliders
           /\ wire' = <<>>
           /\ lastLine' = lastLine]_vars

\* resetToZero pressed on a live connection while goLeft holds the Motor
\* Sideways channels away from 0
C13_Witness ==
    /\ lastOp = <<"resetToZero">>
    /\ down["goLeft"]
    /\ alive
    /\ momentum > 0
    /\ gpio["MS1S"] # 0
    /\ sliders["MS1S"] # 0
    /\ wire = <<>>

\* every line of the last operation that carries channel c carries value v
AllSent(c, v) == \A k \in 1..Len(wire) : wire[k][1] = c => wire[k] = <<c, v>>

\* C14: after reset_to_zero has run with neither ramp button down, momentum
\* is 0, the Forwards slider shows 0, every Motor channel holds 0, shows its
\* safe value and was sent "<id>:0", and every Servo channel holds what it
\* held before.
C14_ResetWhenFree ==
    (IsReset(lastOp) /\ ~Held(down)) =>
        /\ momentum = 0
        /\ sliders["Forwards"] = 0
        /\ \A c \in Motors :
               /\ gpio[c] = 0
               /\ sliders[c] = GPIO[c].safe
               /\ alive => (SentLast(c, 0) /\ AllSent(c, 0))
        /\ \A c \in Servos : gpio[c] = hist[1][c]
        /\ ~fault

\* a reset on a live connection that had momentum and a non-zero Motor
\* channel to clear, with a Servo channel away from its safe value
C14_Witness ==
    /\ lastOp = <<"release", "goLeft">>
    /\ ~Held(down)
    /\ alive
    /\ hist[1]["MS1S"] > 0
    /\ gpio["MS1S"] = 0
    /\ gpio["SJ1H"] # GPIO["SJ1H"].safe
    /\ SentLast("MS1S", 0)

\* C15: safe_value leaves every Servo channel at its safe value with a
\* command carrying that value sent for it, leaves every Motor channel and
\* momentum as they were, and sends no command for a Motor channel.
C15_SafeValue ==
    [][lastOp' = <<"safeValue">> =>
           /\ \A c \in Servos :
                  /\ gpio'[c] = GPIO[c].safe
                  /\ alive' => \E k \in 1..Len(wire') : wire'[k] = <<c, GPIO[c].safe>>
           /\ \A c \in Motors :
                  /\ gpio'[c] = gpio[c]
                  /\ \A k \in 1..Len(wire') : wire'[k][1] # c
           /\ momentum' = momentum
           /\ ~fault']_vars

\* safe_value run while Servo channels were away from their safe values, a
\* Motor channel was set and momentum had built up
C15_Witness ==
    /\ lastOp = <<"safeValue">>
    /\ hist[1]["SN1H"] # GPIO["SN1H"].safe
    /\ hist[1]["SN1V"] # GPIO["SN1V"].safe
    /\ hist[1]["SJ2H"] # GPIO["SJ2H"].safe
    /\ gpio["SN1H"] = GPIO["SN1H"].safe
    /\ gpio["SN1V"] = GPIO["SN1V"].safe
    /\ gpio["MS1F"] # 0
    /\ momentum > 0

\* C16: after the Turn slider has been moved to v, SJ1H and SJ2H both hold v
\* itself, the commands SJ1H:v and then SJ2H:v were sent, and no other
\* channel changed or was sent a command.
C16_TurnUnclipped ==
    IsMove(lastOp, "Turn") =>
        LET v == lastOp[3]
        IN  /\ gpio["SJ1H"] = v
            /\ gpio["SJ2H"] = v
            /\ alive =>
                   /\ SentLast("SJ1H", v)
                   /\ wire[Len(wire)] = <<"SJ2H", v>>
                   /\ \A k \in 1..Len(wire) : wire[k][1] \in {"SJ1H", "SJ2H"}
            /\ \A c \in Channels \ {"SJ1H", "SJ2H"} : gpio[c] = hist[1][c]

\* C17: momentum starts at 0 and is never negative; a step changes it only
\* by one increment of 0.01, in a go_left / go_right call, or to 0, in a
\* reset_to_zero that runs with neither ramp button down; slider moves,
\* safe_value and disconnect leave it as it is; and the release of a ramp
\* button while the other is up leaves momentum 0 and every Motor channel 0.
C17_MomentumMachine ==
    /\ momentum = 0
    /\ [](momentum >= 0)
    /\ [][\/ momentum' = momentum
          \/ /\ momentum' = momentum + 1
             /\ lastOp'[1] \in {"press", "repeat"}
          \/ /\ momentum' = 0
             /\ IsReset(lastOp')
             /\ ~Held(down')]_vars
    /\ [][lastOp'[1] \in {"move", "safeValue", "disconnect"} =>
              momentum' = momentum]_vars
    /\ [][lastOp'[1] \in {"press", "repeat"} => momentum' = momentum + 1]_vars
    /\ [][(lastOp'[1] = "release" /\ ~Held(down')) =>
              /\ momentum' = 0
              /\ \A c \in Motors : gpio'[c] = 0]_vars

\* goRight released after a held ramp had built momentum and moved the Motor
\* Sideways channels, with goLeft up: momentum and the channels are back at 0
C17_Witness ==
    /\ lastOp = <<"release", "goRight">>
    /\ ~Held(down)
    /\ hist[1]["MS1S"] < 0
    /\ momentum = 0
    /\ \A c \in Motors : gpio[c] = 0

\* C18: a second disconnect with the same argument raises nothing and leaves
\* the alive flag, the closed stream, the closed listening socket and the
\* lines written as the first call left them; disconnect(True) twice writes
\* "sd" once in all.
C18_DisconnectTwice ==
    [][\A sd \in BOOLEAN :
           (lastOp = <<"disconnect", sd>> /\ lastOp' = <<"disconnect", sd>>) =>
               /\ alive' = alive
               /\ closed' = closed
               /\ sockClosed' = sockClosed
               /\ sdSent' = sdSent
               /\ lastLine' = lastLine
               /\ ~fault'
               /\ sd => sdSent' = 1]_vars

\* the state after disconnect(True) has been called on a connection that an
\* earlier disconnect(True) had shut down
C18_Witness ==
    /\ lastOp = <<"disconnect", TRUE>>
    /\ wire = <<>>
    /\ ~alive
    /\ closed
    /\ sockClosed
    /\ sdSent = 1
    /\ lastLine = <<"sd">>

\* C19: the first angular-rate sample, processed while TIMESTAMP is still 0,
\* only seeds TIMESTAMP: simulator.state is still what the constructor set
\* and nothing has been painted from it.
C19_FirstSampleSeeds ==
    samples = 1 =>
        /\ timestamp # 0
        /\ simState = InitialState
        /\ painted = 0

\* C20: the k-th frame the reader yields carries the sequence number k: the
\* first carries 1 and each later one the number before it plus 1.
C20_SequenceNumbers ==
    /\ \A k \in 1..Len(frames) : frames[k][1] = k
    /\ rpc = "payload" => i = Len(frames) + 1

\* a second frame has been yielded, carrying 2 after the first's 1
C20_Witness ==
    /\ Len(frames) >= 2
    /\ frames[1][1] = 1
    /\ frames[2][1] = 2

\* the imageLens of the whole frames the stream was made of
SentLens == CHOOSE lens \in WholeLens : EncodeFrames(lens) = sent

\* bytes of the first n frames sent
RECURSIVE BytesOf(_, _)
BytesOf(lens, n) ==
    IF n = 0 THEN 0 ELSE BytesOf(lens, n - 1) + HeaderSize + lens[n]

\* C21: on a stream of N whole frames the reader yields the N frames in
\* order and then ends; frame k carries the imageLen_k bytes after its header
\* and the six values encoded, and takes 28 + imageLen_k bytes of the stream.
C21_RoundTrip ==
    LET lens == SentLens
        n == Len(frames)
    IN  /\ rerr = "none"
        /\ n <= Len(lens)
        /\ \A k \in 1..n :
               frames[k] = <<k, ImageOf(k, lens[k]), SampleOf(k)>>
        /\ Len(sent) - Len(stream) =
               BytesOf(lens, n) + (IF rpc = "payload" THEN HeaderSize ELSE 0)
        /\ rpc = "payload" => (n < Len(lens) /\ hdr.image_len = lens[n + 1]
                                 /\ hdr.agdata = SampleOf(n + 1))
        /\ rpc = "done" => (n = Len(lens) /\ stream = <<>>)

\* three whole frames, the second with an empty image, read to the end
C21_Witness ==
    /\ rpc = "done"
    /\ Len(frames) = 3
    /\ frames[1][2] # <<>>
    /\ frames[2][2] = <<>>
    /\ Len(frames[3][2]) = MaxImageLen
    /\ frames[3][3] = SampleOf(3)
    /\ Len(sent) = 3 * HeaderSize + Len(frames[1][2]) + MaxImageLen

\* C22: the operator setting a Servo channel c to v writes the one line
\* "<c>:<clip(v)>", raises nothing, and changes the current value of c only;
\* the registry holds its 14 ids throughout.
C22_ServoSet ==
    /\ DOMAIN gpio = Channels
    /\ Cardinality(DOMAIN gpio) = 14
    /\ \A k \in 1..Len(hist) : DOMAIN hist[k] = Channels
    /\ (lastOp[1] = "move" /\ lastOp[2] \in Servos) =>
           LET c == lastOp[2]
               v == lastOp[3]
           IN  /\ ~fault
               /\ wire = << <<c, clip(c, v)>> >>
               /\ gpio[c] = clip(c, v)
               /\ \A o \in Channels \ {c} : gpio[o] = hist[1][o]
               /\ \A k \in 1..Len(hist) :
                      \A o \in Channels \ {c} : hist[k][o] = hist[1][o]

\* SN1H set beyond its lower bound while a Motor channel and the joints hold
\* values
C22_Witness ==
    /\ lastOp = <<"move", "SN1H", -100>>
    /\ gpio["SN1H"] = GPIO["SN1H"].lower
    /\ wire = << <<"SN1H", GPIO["SN1H"].lower>> >>
    /\ gpio["MS1F"] # 0
    /\ gpio["SJ2H"] # 0
    /\ gpio["SN1V"] = GPIO["SN1V"].upper

\* C23: after Server.disconnect has returned, for sd True and for sd False,
\* the connection's alive flag is False.
C23_DeadAfterDisconnect == lastOp[1] = "disconnect" => ~alive

\* C24: the report made for a sample is a function of its (gx, gy, gz) and of
\* the time since TIMESTAMP alone, whatever was sampled and reported before,
\* and TIMESTAMP is the current time after every sample.
C24_HistoryIndependent ==
    [][samples' # samples =>
           LET dt == clock - timestamp
           IN  /\ simState' = RotationReport(lastAg'[4] * dt, lastAg'[5] * dt,
                                             lastAg'[6] * dt)
               /\ timestamp' = clock
               /\ painted' = painted + 1]_vars

\* a third sample, reported two seconds after a second one
C24_Witness ==
    /\ samples = 3
    /\ lastAg = <<0, 0, 1, 1, -1, 2>>
    /\ simState = RotationReport(2, -2, 4)
    /\ timestamp = clock
    /\ clock > 3

\* C25: on a live connection, after every completed operation, the last line
\* written for a channel carries the channel's current value in the registry.
C25_ViewMatchesRegistry ==
    alive => \A c \in Channels : LinesFor(c) # <<>> => SentLast(c, gpio[c])

\* C26: one control event runs a finite chain of nested valueChanged
\* handlers and returns: no chain reaches the depth at which the model cuts
\* it, and the operation writes at most two lines per channel.
C26_CascadeTerminates ==
    /\ nest <= MaxNest
    /\ Len(wire) <= 2 * Cardinality(Channels)
    /\ Len(hist) <= 1 + 2 * Cardinality(Channels)

\* a slider move whose handler re-entered a second and a third handler
\* before it returned
C26_Witness ==
    /\ lastOp[1] = "move"
    /\ nest = 3
    /\ Len(wire) >= 6
    /\ ~fault
====
